---- MODULE Spec2Model ----
(***************************************************************************)
(* Model of the Linux biometric_storage plugin                             *)
(* (src/linux/biometric_storage_plugin.cc): the method-call dispatcher,    *)
(* the three libsecret completion callbacks and the error translator,      *)
(* together with the method channel's call handles and the secret service  *)
(* the plugin talks to.                                                    *)
(***************************************************************************)
EXTENDS Integers, Sequences, FiniteSets, TLC

(* Bounds of the model. *)
MaxCalls == 3

(***************************************************************************)
(* Program constants (plugin.cc lines 10-15).                              *)
(***************************************************************************)
kBadArgumentsError == "Bad Arguments"
kSecurityAccessError == "Security Access Error"
kMethodRead == "read"
kMethodWrite == "write"
kMethodDelete == "delete"
kNamePrefix == "design.codeux.authpass"

(***************************************************************************)
(* FlValue: the dynamically typed values of the method channel.  nullptr   *)
(* is the absent FlValue* that a failed lookup returns.  A gchar* is a     *)
(* sequence of length at most one: << >> is NULL, <<s>> points to s.       *)
(***************************************************************************)
nullptr == [type |-> "nullptr", bool |-> FALSE, int |-> 0, str |-> "", map |-> << >>]
fl_value_new_null == [nullptr EXCEPT !.type = "null"]
fl_value_new_bool(b) == [nullptr EXCEPT !.type = "bool", !.bool = b]
fl_value_new_int(i) == [nullptr EXCEPT !.type = "int", !.int = i]
fl_value_new_string(s) == [nullptr EXCEPT !.type = "string", !.str = s]
fl_value_new_map == [nullptr EXCEPT !.type = "map"]
fl_value_set_string_take(self, key, value) ==
    [self EXCEPT !.map = [k \in (DOMAIN self.map) \cup {key} |->
                              IF k = key THEN value ELSE self.map[k]]]

NULL == << >>

fl_value_lookup_string(self, key) ==
    IF self.type # "map" THEN nullptr
    ELSE IF key \in DOMAIN self.map THEN self.map[key]
    ELSE nullptr
fl_value_get_type(self) == IF self = nullptr THEN "null" ELSE self.type
fl_value_get_bool(self) == IF self.type = "bool" THEN self.bool ELSE FALSE
fl_value_get_string(self) == IF self.type = "string" THEN <<self.str>> ELSE NULL

(* The lookups and getters are those of flutter_linux: they check their    *)
(* argument (g_return_val_if_fail) and return nullptr, FL_VALUE_TYPE_NULL, *)
(* FALSE or NULL for a value that is absent or of another type.            *)
(* printf's %s of a gchar*: glibc prints a NULL pointer as "(null)".       *)
PrintfS(p) == IF p = NULL THEN "(null)" ELSE p[1]

(***************************************************************************)
(* Method responses.                                                       *)
(***************************************************************************)
fl_method_success_response_new(result) ==
    [kind |-> "success", code |-> "", message |-> "", value |-> result]
fl_method_error_response_new(code, message, details) ==
    [kind |-> "error", code |-> code, message |-> message, value |-> details]
(* An unknown method answered as if it had succeeded with null. *)
fl_method_not_implemented_response_new_AsSuccess ==
    fl_method_success_response_new(fl_value_new_null)

fl_method_not_implemented_response_new ==
    [kind |-> "not_implemented", code |-> "", message |-> "", value |-> nullptr]

(***************************************************************************)
(* GError.  NoError is the NULL GError* left by a finish call that         *)
(* succeeded.                                                              *)
(***************************************************************************)
NoError == [isnull |-> TRUE, domain |-> "", code |-> 0, message |-> ""]
GErrorNew(domain, code, message) ==
    [isnull |-> FALSE, domain |-> domain, code |-> code, message |-> message]

(* The failures the secret service reports in the model: a store may fail *)
(* with either, a lookup or a clear with the first.                       *)
ErrorIsLocked == GErrorNew("secret-error", 2, "Item is locked")
ErrorNoBus == GErrorNew("g-io-error-quark", 0, "Cannot autolaunch D-Bus")
BackendErrors(kind) ==
    IF kind = "store" THEN {ErrorIsLocked, ErrorNoBus} ELSE {ErrorIsLocked}

(* An identifier formatted without the separating dot. *)
METHOD_PARAM_NAME_NoSeparator(args) ==
    kNamePrefix \o
        PrintfS(fl_value_get_string(fl_value_lookup_string(args, "name")))

(* An identifier that leaves the caller's name out. *)
METHOD_PARAM_NAME_NoName(args) == kNamePrefix \o "."

(***************************************************************************)
(* METHOD_PARAM_NAME (lines 17-18): the credential identifier.             *)
(***************************************************************************)
METHOD_PARAM_NAME(args) ==
    kNamePrefix \o "." \o
        PrintfS(fl_value_get_string(fl_value_lookup_string(args, "name")))

(* The write branch's content parameter (lines 157-158). *)
ContentParam(args) ==
    fl_value_get_string(fl_value_lookup_string(args, "content"))

(* _handle_error with the code filed under the key of the domain. *)
_handle_error_CodeUnderDomain(message, error) ==
    LET domain == error.domain
        error_message == message \o ": " \o error.message \o " ("
                            \o ToString(error.code) \o ") (" \o domain \o ")"
        d0 == fl_value_new_map
        d1 == fl_value_set_string_take(d0, "domain", fl_value_new_string(domain))
        d2 == fl_value_set_string_take(d1, "domain", fl_value_new_int(error.code))
        error_details ==
            fl_value_set_string_take(d2, "message", fl_value_new_string(error.message))
    IN  fl_method_error_response_new(kSecurityAccessError, error_message, error_details)

(***************************************************************************)
(* _handle_error (lines 36-46).                                            *)
(***************************************************************************)
_handle_error(message, error) ==
    LET domain == error.domain
        error_message == message \o ": " \o error.message \o " ("
                            \o ToString(error.code) \o ") (" \o domain \o ")"
        d0 == fl_value_new_map
        d1 == fl_value_set_string_take(d0, "domain", fl_value_new_string(domain))
        d2 == fl_value_set_string_take(d1, "code", fl_value_new_int(error.code))
        error_details ==
            fl_value_set_string_take(d2, "message", fl_value_new_string(error.message))
    IN  fl_method_error_response_new(kSecurityAccessError, error_message, error_details)

(* handleInit without the authenticationRequired test. *)
handleInit_NoAuthCheck(args) ==
    LET options == fl_value_lookup_string(args, "options")
    IN  IF fl_value_get_type(options) # "map"
        THEN fl_method_error_response_new(kBadArgumentsError,
                 "Argument map missing or malformed", nullptr)
        ELSE fl_method_success_response_new(fl_value_new_bool(TRUE))

(* handleInit without the test of the options' type. *)
handleInit_NoTypeCheck(args) ==
    LET options == fl_value_lookup_string(args, "options")
        authRequired == fl_value_lookup_string(options, "authenticationRequired")
    IN  IF fl_value_get_bool(authRequired)
        THEN fl_method_error_response_new(kBadArgumentsError,
                 "Linux plugin only supports non-authenticated secure storage", nullptr)
        ELSE fl_method_success_response_new(fl_value_new_bool(TRUE))

(***************************************************************************)
(* handleInit (lines 48-60).                                               *)
(***************************************************************************)
handleInit(args) ==
    LET options == fl_value_lookup_string(args, "options")
        authRequired == fl_value_lookup_string(options, "authenticationRequired")
    IN  IF fl_value_get_type(options) # "map"
        THEN fl_method_error_response_new(kBadArgumentsError,
                 "Argument map missing or malformed", nullptr)
        ELSE IF fl_value_get_bool(authRequired)
        THEN fl_method_error_response_new(kBadArgumentsError,
                 "Linux plugin only supports non-authenticated secure storage", nullptr)
        ELSE fl_method_success_response_new(fl_value_new_bool(TRUE))

(***************************************************************************)
(* State.                                                                  *)
(*   calls  the FlMethodCall handles received so far, in arrival order:    *)
(*          the method, the arguments, the references the plugin holds on  *)
(*          the handle (g_object_ref / g_object_unref) and the responses   *)
(*          sent on it (fl_method_call_respond);                           *)
(*   ops    the asynchronous libsecret operations handed to the secret     *)
(*          service, in issue order, each with its callback and user_data, *)
(*          and once completed its result and after, the operation whose   *)
(*          successful store or clear was the service's last change of the *)
(*          same item before this one completed (0: there was none);       *)
(*   store  the secret service's items of the schema: attribute "name"     *)
(*          -> secret;                                                     *)
(*   issued the plugin's calls of secret_password_store, _lookup and       *)
(*          _clear, in order, each with the user_data it passed, whether   *)
(*          or not libsecret started an operation for it.                  *)
(***************************************************************************)
VARIABLES calls, ops, store, issued
vars == <<calls, ops, store, issued>>

(* Inputs of the model. *)
Contents == {"s1", "s2"}
Methods == {"canAuthenticate", "init", kMethodWrite, kMethodRead, kMethodDelete,
            "getAvailableBiometrics"}

ArgMap1(k, v) == fl_value_set_string_take(fl_value_new_map, k, v)
ArgMap2(k1, v1, k2, v2) == fl_value_set_string_take(ArgMap1(k1, v1), k2, v2)

WriteArgs ==
    { ArgMap2("name", fl_value_new_string("k1"), "content", fl_value_new_string(c)) :
          c \in Contents }
    \cup { ArgMap2("name", fl_value_new_string("k2"), "content", fl_value_new_string("s1")),
           ArgMap1("name", fl_value_new_string("k1")) }
ReadArgs ==
    { ArgMap1("name", fl_value_new_string("k1")), fl_value_new_map }
DeleteArgs ==
    { ArgMap1("name", fl_value_new_string("k1")), ArgMap1("name", fl_value_new_int(7)) }
InitArgs ==
    { fl_value_new_null,
      ArgMap1("name", fl_value_new_string("k1")),
      ArgMap1("options", fl_value_new_string("x")),
      ArgMap1("options", fl_value_new_map),
      ArgMap1("options", ArgMap1("authenticationRequired", fl_value_new_bool(FALSE))),
      ArgMap2("options", ArgMap1("authenticationRequired", fl_value_new_bool(TRUE)),
              "name", fl_value_new_string("k1")) }
ArgsFor(method) ==
    IF method = kMethodWrite THEN WriteArgs
    ELSE IF method = kMethodRead THEN ReadArgs
    ELSE IF method = kMethodDelete THEN DeleteArgs
    ELSE IF method = "init" THEN InitArgs
    ELSE {fl_value_new_null}

(***************************************************************************)
(* The method channel's handle operations.                                 *)
(***************************************************************************)
fl_method_call_respond(cs, method_call, response) ==
    [cs EXCEPT ![method_call].responses = Append(@, response)]
g_object_ref(cs, method_call) == [cs EXCEPT ![method_call].refs = @ + 1]
g_object_unref(cs, method_call) == [cs EXCEPT ![method_call].refs = @ - 1]

(***************************************************************************)
(* libsecret's asynchronous entry points.  secret_password_store returns   *)
(* without starting anything when its password is NULL (its               *)
(* g_return_if_fail precondition): the callback is then never invoked.     *)
(***************************************************************************)
NewOp(kind, name, password, callback, user_data) ==
    [kind |-> kind, name |-> name, password |-> password, callback |-> callback,
     user_data |-> user_data, state |-> "pending", error |-> NoError,
     removed |-> FALSE, found |-> NULL, after |-> 0]
Invoke(log, primitive, user_data) ==
    Append(log, [primitive |-> primitive, user_data |-> user_data])
(* A store that is not started while an operation on the same item is *)
(* still pending. *)
secret_password_store_Serialized(os, label, password, callback, user_data, name) ==
    IF password = NULL
          \/ \E j \in DOMAIN os : os[j].state = "pending" /\ os[j].name = name
    THEN os
    ELSE Append(os, NewOp("store", name, password, callback, user_data))

secret_password_store(os, label, password, callback, user_data, name) ==
    IF password = NULL THEN os
    ELSE Append(os, NewOp("store", name, password, callback, user_data))
secret_password_lookup(os, callback, user_data, name) ==
    Append(os, NewOp("lookup", name, NULL, callback, user_data))
secret_password_clear(os, callback, user_data, name) ==
    Append(os, NewOp("clear", name, NULL, callback, user_data))

(***************************************************************************)
(* The secret service: what an operation does to the items when it         *)
(* completes, and what its finish call reports.  A failed operation        *)
(* leaves the items as they were.                                          *)
(***************************************************************************)
StoreItem(st, name, secret) ==
    [k \in (DOMAIN st) \cup {name} |-> IF k = name THEN secret ELSE st[k]]
(* A clear that removes every item of the schema, whatever its name. *)
ClearItem_All(st, name) == << >>

ClearItem(st, name) == [k \in (DOMAIN st) \ {name} |-> st[k]]
ServiceApply(st, op, err) ==
    IF ~err.isnull THEN st
    ELSE IF op.kind = "store" THEN StoreItem(st, op.name, op.password[1])
    ELSE IF op.kind = "clear" THEN ClearItem(st, op.name)
    ELSE st
secret_password_clear_finish(st, op, err) ==
    err.isnull /\ op.name \in DOMAIN st
secret_password_lookup_finish(st, op, err) ==
    IF err.isnull /\ op.name \in DOMAIN st THEN <<st[op.name]>> ELSE NULL
Changes(name) ==
    {j \in DOMAIN ops : /\ ops[j].state = "done" /\ ops[j].name = name
                        /\ ops[j].kind \in {"store", "clear"} /\ ops[j].error.isnull}
LastChange(name) ==
    LET last == {j \in Changes(name) : \A k \in Changes(name) : ops[k].after # j}
    IN  IF last = {} THEN 0 ELSE CHOOSE j \in last : TRUE
FinishOp(st, op, err) ==
    [op EXCEPT !.state = "done", !.error = err,
               !.after = LastChange(op.name),
               !.removed = secret_password_clear_finish(st, op, err),
               !.found = secret_password_lookup_finish(st, op, err)]

(***************************************************************************)
(* The responses the completion callbacks build.                           *)
(***************************************************************************)
(* on_password_stored, lines 82-88 *)
StoredResponse(error) ==
    IF ~error.isnull
    THEN _handle_error("Failed to store secret", error)
    ELSE fl_method_success_response_new(fl_value_new_bool(TRUE))

(* A clear callback that reports success as true, whatever was removed. *)
ClearedResponse_AlwaysTrue(removed, error) ==
    IF ~error.isnull
    THEN _handle_error("Failed to delete secret", error)
    ELSE fl_method_success_response_new(fl_value_new_bool(TRUE))

(* on_password_cleared, lines 102-109 *)
ClearedResponse(removed, error) ==
    IF ~error.isnull
    THEN _handle_error("Failed to delete secret", error)
    ELSE fl_method_success_response_new(fl_value_new_bool(removed))

(* A lookup callback that treats a missing item as a failure. *)
LookupResponse_NotFoundIsError(password, error) ==
    IF ~error.isnull
    THEN _handle_error("Failed to lookup secret", error)
    ELSE IF password = NULL
    THEN fl_method_error_response_new(kSecurityAccessError,
             "Failed to lookup password (not found).", nullptr)
    ELSE fl_method_success_response_new(fl_value_new_string(password[1]))

(* on_password_lookup, lines 122-134 *)
LookupResponse(password, error) ==
    IF ~error.isnull
    THEN _handle_error("Failed to lookup secret", error)
    ELSE IF password = NULL
    THEN fl_method_success_response_new(fl_value_new_null)
    ELSE fl_method_success_response_new(fl_value_new_string(password[1]))

(* A callback that answers on one remembered handle, not on its own. *)
UserDataCall_Shared(op) == 1

(* The callbacks' user_data is the call handle: lines 78, 97, 117. *)
UserDataCall(op) == op.user_data

(* A callback tail that drops the reference without responding. *)
RespondAndRelease_NoRespond(cs, method_call, response) ==
    g_object_unref(cs, method_call)

(* The callbacks' tail, lines 90-91, 110-111, 135-136: respond on the      *)
(* handle, then drop the reference taken when the operation was issued.   *)
RespondAndRelease(cs, method_call, response) ==
    g_object_unref(fl_method_call_respond(cs, method_call, response), method_call)

(* The dispatcher's own response, line 184. *)
RespondSync(cs, method_call, response) ==
    fl_method_call_respond(cs, method_call, response)

(* A capability probe that reports the hardware as usable. *)
CanAuthenticateResult_Success == fl_value_new_string("Success")

(* The canAuthenticate branch's result, line 149. *)
CanAuthenticateResult == fl_value_new_string("ErrorHwUnavailable")

(***************************************************************************)
(* Initial state: the plugin has just been registered (lines 203-217).     *)
(* It has no fields; nothing has been received or issued, and the secret   *)
(* service holds no item of the schema yet.                                *)
(***************************************************************************)
EmptyStore == << >>

Init ==
    /\ calls = << >>
    /\ ops = << >>
    /\ store = EmptyStore
    /\ issued = << >>

(* The dispatcher refusing storage calls until an init has succeeded. *)
biometric_storage_plugin_handle_method_call_InitGate(method, args) ==
    /\ Len(calls) < MaxCalls
    /\ LET method_call == Len(calls) + 1
           received == Append(calls, [method |-> method, args |-> args,
                                      refs |-> 0, responses |-> << >>])
           initialised ==
               \E c \in DOMAIN calls :
                   calls[c].method = "init" /\ calls[c].responses[1].kind = "success"
       IN  IF method \in {kMethodWrite, kMethodRead, kMethodDelete} /\ ~initialised THEN
               LET response == fl_method_error_response_new(kBadArgumentsError,
                                   "Plugin not initialised", nullptr)
               IN  /\ calls' = RespondSync(received, method_call, response)
                   /\ UNCHANGED <<ops, store, issued>>
           ELSE IF method = "canAuthenticate" THEN
               LET result == CanAuthenticateResult
                   response == fl_method_success_response_new(result)
               IN  /\ calls' = RespondSync(received, method_call, response)
                   /\ UNCHANGED <<ops, store, issued>>
           ELSE IF method = "init" THEN
               LET response == handleInit(args)
               IN  /\ calls' = RespondSync(received, method_call, response)
                   /\ UNCHANGED <<ops, store, issued>>
           ELSE IF method = kMethodWrite THEN
               LET name == METHOD_PARAM_NAME(args)
                   content == ContentParam(args)
               IN  /\ calls' = g_object_ref(received, method_call)
                   /\ ops' = secret_password_store(ops, name, content,
                                 "on_password_stored", method_call, name)
                   /\ issued' = Invoke(issued, "secret_password_store", method_call)
                   /\ UNCHANGED store
           ELSE IF method = kMethodRead THEN
               LET name == METHOD_PARAM_NAME(args)
               IN  /\ calls' = g_object_ref(received, method_call)
                   /\ ops' = secret_password_lookup(ops, "on_password_lookup",
                                 method_call, name)
                   /\ issued' = Invoke(issued, "secret_password_lookup", method_call)
                   /\ UNCHANGED store
           ELSE IF method = kMethodDelete THEN
               LET name == METHOD_PARAM_NAME(args)
               IN  /\ calls' = g_object_ref(received, method_call)
                   /\ ops' = secret_password_clear(ops, "on_password_cleared",
                                 method_call, name)
                   /\ issued' = Invoke(issued, "secret_password_clear", method_call)
                   /\ UNCHANGED store
           ELSE
               LET response == fl_method_not_implemented_response_new
               IN  /\ calls' = RespondSync(received, method_call, response)
                   /\ UNCHANGED <<ops, store, issued>>

(***************************************************************************)
(* biometric_storage_plugin_handle_method_call (lines 140-185), reached    *)
(* from method_call_cb (lines 197-201).                                    *)
(***************************************************************************)
biometric_storage_plugin_handle_method_call(method, args) ==
    /\ Len(calls) < MaxCalls
    /\ LET method_call == Len(calls) + 1
           received == Append(calls, [method |-> method, args |-> args,
                                      refs |-> 0, responses |-> << >>])
       IN  IF method = "canAuthenticate" THEN
               LET result == CanAuthenticateResult
                   response == fl_method_success_response_new(result)
               IN  /\ calls' = RespondSync(received, method_call, response)
                   /\ UNCHANGED <<ops, store, issued>>
           ELSE IF method = "init" THEN
               LET response == handleInit(args)
               IN  /\ calls' = RespondSync(received, method_call, response)
                   /\ UNCHANGED <<ops, store, issued>>
           ELSE IF method = kMethodWrite THEN
               LET name == METHOD_PARAM_NAME(args)
                   content == ContentParam(args)
               IN  /\ calls' = g_object_ref(received, method_call)
                   /\ ops' = secret_password_store(ops, name, content,
                                 "on_password_stored", method_call, name)
                   /\ issued' = Invoke(issued, "secret_password_store", method_call)
                   /\ UNCHANGED store
           ELSE IF method = kMethodRead THEN
               LET name == METHOD_PARAM_NAME(args)
               IN  /\ calls' = g_object_ref(received, method_call)
                   /\ ops' = secret_password_lookup(ops, "on_password_lookup",
                                 method_call, name)
                   /\ issued' = Invoke(issued, "secret_password_lookup", method_call)
                   /\ UNCHANGED store
           ELSE IF method = kMethodDelete THEN
               LET name == METHOD_PARAM_NAME(args)
               IN  /\ calls' = g_object_ref(received, method_call)
                   /\ ops' = secret_password_clear(ops, "on_password_cleared",
                                 method_call, name)
                   /\ issued' = Invoke(issued, "secret_password_clear", method_call)
                   /\ UNCHANGED store
           ELSE
               LET response == fl_method_not_implemented_response_new
               IN  /\ calls' = RespondSync(received, method_call, response)
                   /\ UNCHANGED <<ops, store, issued>>

(***************************************************************************)
(* The completion callbacks.  The secret service completes a pending       *)
(* operation, with success or with one of its errors err, and the main     *)
(* loop runs the operation's callback with the result.                     *)
(***************************************************************************)
Outcomes(kind) == {NoError} \cup BackendErrors(kind)

Pending(i, callback) ==
    i \in DOMAIN ops /\ ops[i].state = "pending" /\ ops[i].callback = callback

(* on_password_stored storing the secret again when the store has failed. *)
on_password_stored_Retry(i, err) ==
    /\ Pending(i, "on_password_stored")
    /\ LET finished == FinishOp(store, ops[i], err)
           error == finished.error
           method_call == UserDataCall(finished)
           response == StoredResponse(error)
       IN  /\ store' = ServiceApply(store, ops[i], err)
           /\ IF error.isnull
              THEN /\ ops' = [ops EXCEPT ![i] = finished]
                   /\ calls' = RespondAndRelease(calls, method_call, response)
                   /\ UNCHANGED issued
              ELSE /\ ops' = secret_password_store([ops EXCEPT ![i] = finished],
                                 finished.name, finished.password,
                                 "on_password_stored", method_call, finished.name)
                   /\ issued' = Invoke(issued, "secret_password_store", method_call)
                   /\ UNCHANGED calls

(* lines 75-92 *)
on_password_stored(i, err) ==
    /\ Pending(i, "on_password_stored")
    /\ LET finished == FinishOp(store, ops[i], err)
           error == finished.error
           method_call == UserDataCall(finished)
           response == StoredResponse(error)
       IN  /\ ops' = [ops EXCEPT ![i] = finished]
           /\ store' = ServiceApply(store, ops[i], err)
           /\ calls' = RespondAndRelease(calls, method_call, response)
           /\ UNCHANGED issued

(* lines 94-112 *)
on_password_cleared(i, err) ==
    /\ Pending(i, "on_password_cleared")
    /\ LET finished == FinishOp(store, ops[i], err)
           error == finished.error
           method_call == UserDataCall(finished)
           removed == finished.removed
           response == ClearedResponse(removed, error)
       IN  /\ ops' = [ops EXCEPT ![i] = finished]
           /\ store' = ServiceApply(store, ops[i], err)
           /\ calls' = RespondAndRelease(calls, method_call, response)
           /\ UNCHANGED issued

(* lines 114-137 *)
on_password_lookup(i, err) ==
    /\ Pending(i, "on_password_lookup")
    /\ LET finished == FinishOp(store, ops[i], err)
           error == finished.error
           method_call == UserDataCall(finished)
           password == finished.found
           response == LookupResponse(password, error)
       IN  /\ ops' = [ops EXCEPT ![i] = finished]
           /\ store' = ServiceApply(store, ops[i], err)
           /\ calls' = RespondAndRelease(calls, method_call, response)
           /\ UNCHANGED issued

OpIds == 1..MaxCalls

Next ==
    \/ \E method \in Methods : \E args \in ArgsFor(method) :
           biometric_storage_plugin_handle_method_call(method, args)
    \/ \E i \in OpIds, err \in Outcomes("store") : on_password_stored(i, err)
    \/ \E i \in OpIds, err \in Outcomes("clear") : on_password_cleared(i, err)
    \/ \E i \in OpIds, err \in Outcomes("lookup") : on_password_lookup(i, err)

Spec == Init /\ [][Next]_vars

(* The secret service eventually completes every operation it was given   *)
(* and the main loop then runs the callback.                               *)
FairSpec ==
    /\ Spec
    /\ \A i \in OpIds :
          /\ WF_vars(\E err \in Outcomes("store") : on_password_stored(i, err))
          /\ WF_vars(\E err \in Outcomes("clear") : on_password_cleared(i, err))
          /\ WF_vars(\E err \in Outcomes("lookup") : on_password_lookup(i, err))

(***************************************************************************)
(* Vocabulary of the properties, stated on the calls as the caller sees    *)
(* them: the method, the arguments sent and the responses received.        *)
(***************************************************************************)
CallIds == DOMAIN calls
IsStorageCall(c) == calls[c].method \in {"write", "read", "delete"}
ArgOf(c, key) ==
    IF calls[c].args.type = "map" /\ key \in DOMAIN calls[c].args.map
    THEN calls[c].args.map[key] ELSE nullptr
HasStringArg(c, key) == ArgOf(c, key).type = "string"
(* the calls whose backend operation the secret service accepted, and the *)
(* call behind the i-th operation issued                                   *)
IssuesOp(c) ==
    \/ calls[c].method \in {"read", "delete"}
    \/ calls[c].method = "write" /\ HasStringArg(c, "content")
Issuers == SelectSeq([c \in 1..Len(calls) |-> c], IssuesOp)
IssuerOf(i) == Issuers[i]
OpOfCall(c) ==
    Cardinality({d \in 1..c : IssuesOp(d)})
Completed(c) ==
    IssuesOp(c) /\ OpOfCall(c) \in DOMAIN ops /\ ops[OpOfCall(c)].state = "done"
InFlight(c) ==
    IssuesOp(c) /\ OpOfCall(c) \in DOMAIN ops /\ ops[OpOfCall(c)].state = "pending"
Finished(c) == IF IsStorageCall(c) THEN Completed(c) ELSE TRUE

Success(v) == [kind |-> "success", code |-> "", message |-> "", value |-> v]
IsSuccess(r, v) == r = Success(v)
IsError(r, code) == r.kind = "error" /\ r.code = code
ValBool(b) == [type |-> "bool", bool |-> b, int |-> 0, str |-> "", map |-> << >>]
ValString(x) == [type |-> "string", bool |-> FALSE, int |-> 0, str |-> x, map |-> << >>]
ValNull == [type |-> "null", bool |-> FALSE, int |-> 0, str |-> "", map |-> << >>]
ValInt(n) == [type |-> "int", bool |-> FALSE, int |-> n, str |-> "", map |-> << >>]
ErrorDetails(e) ==
    [type |-> "map", bool |-> FALSE, int |-> 0, str |-> "",
     map |-> [k \in {"domain", "code", "message"} |->
                 IF k = "domain" THEN ValString(e.domain)
                 ELSE IF k = "code" THEN ValInt(e.code)
                 ELSE ValString(e.message)]]

(***************************************************************************)
(* C1.  Every call has at most one response at any time, and exactly one   *)
(* once it has finished: at once for canAuthenticate, init and an unknown  *)
(* method, at the backend completion for write, read and delete, whether   *)
(* the backend succeeded or failed.                                        *)
(***************************************************************************)
C1_ExactlyOneResponse ==
    \A c \in CallIds :
        /\ Len(calls[c].responses) <= 1
        /\ Finished(c) => Len(calls[c].responses) = 1
        /\ (IsStorageCall(c) /\ ~Completed(c)) => calls[c].responses = << >>

C1_Witness ==
    \E c, d, e \in CallIds :
        /\ Completed(c) /\ ~ops[OpOfCall(c)].error.isnull
        /\ Completed(d) /\ ops[OpOfCall(d)].error.isnull
        /\ ~IsStorageCall(e)
        /\ \A x \in {c, d, e} : Len(calls[x].responses) = 1

(***************************************************************************)
(* C2.  Every write, read or delete call that was received is eventually   *)
(* answered, given that the backend completes every operation it was       *)
(* given; and an answered call stays answered, with the same response.     *)
(***************************************************************************)
C2_EveryStorageCallAnswered ==
    /\ \A c \in 1..MaxCalls :
           (c \in CallIds /\ IsStorageCall(c))
               ~> (c \in CallIds /\ Len(calls[c].responses) = 1)
    /\ [][\A c \in CallIds :
              Len(calls[c].responses) = 1 => calls'[c].responses = calls[c].responses]_vars

OutcomeIn(r, op) ==
    IF ~op.error.isnull
    THEN IsError(r, "Security Access Error") /\ r.value = ErrorDetails(op.error)
    ELSE IF op.kind = "store" THEN IsSuccess(r, ValBool(TRUE))
    ELSE IF op.kind = "clear" THEN IsSuccess(r, ValBool(op.removed))
    ELSE IF op.found = << >> THEN IsSuccess(r, ValNull)
    ELSE IsSuccess(r, ValString(op.found[1]))

(***************************************************************************)
(* C3.  Whatever the order of the completions, the response of a completed *)
(* backend operation is on the handle of the call that issued it and       *)
(* carries that operation's outcome, and the handle of a call whose        *)
(* operation is still in flight carries nothing.                           *)
(***************************************************************************)
C3_CompletionsRouted ==
    \A i \in DOMAIN ops :
        LET c == IssuerOf(i)
        IN  IF ops[i].state = "done"
            THEN Len(calls[c].responses) = 1 /\ OutcomeIn(calls[c].responses[1], ops[i])
            ELSE calls[c].responses = << >>

C3_Witness ==
    \E i, j \in DOMAIN ops : \E e \in CallIds :
        /\ i < j /\ ops[i].state = "pending" /\ ops[j].state = "done"
        /\ IssuerOf(i) < e /\ e < IssuerOf(j) /\ ~IsStorageCall(e)
        /\ Len(calls[IssuerOf(j)].responses) = 1

Malformed(c) ==
    \/ calls[c].method = "init" /\ ArgOf(c, "options").type # "map"
    \/ IsStorageCall(c) /\ ~HasStringArg(c, "name")
    \/ calls[c].method = "write" /\ ~HasStringArg(c, "content")

(***************************************************************************)
(* C4.  A call of init, write, read or delete with a required argument     *)
(* missing or of the wrong type is answered at once with a Bad Arguments   *)
(* error, and only the well-formed storage calls reach the backend.        *)
(***************************************************************************)
C4_MalformedRejected ==
    /\ \A c \in CallIds :
           Malformed(c) =>
               /\ Len(calls[c].responses) = 1
               /\ IsError(calls[c].responses[1], "Bad Arguments")
    /\ Len(ops) = Cardinality({c \in CallIds : IsStorageCall(c) /\ ~Malformed(c)})

FailedCall(c) == Completed(c) /\ ~ops[OpOfCall(c)].error.isnull

(***************************************************************************)
(* C5.  A storage call whose backend operation completed with an error has *)
(* one response, a Security Access Error whose details are the error's     *)
(* domain, code and message; and a Security Access Error is only ever the  *)
(* response of a storage call whose backend operation completed with an    *)
(* error.                                                                  *)
(***************************************************************************)
C5_SecurityAccessError ==
    \A c \in CallIds :
        /\ FailedCall(c) =>
               /\ Len(calls[c].responses) = 1
               /\ IsError(calls[c].responses[1], "Security Access Error")
               /\ calls[c].responses[1].value = ErrorDetails(ops[OpOfCall(c)].error)
        /\ \A k \in DOMAIN calls[c].responses :
               IsError(calls[c].responses[k], "Security Access Error") =>
                   IsStorageCall(c) /\ FailedCall(c)

C5_Witness ==
    \E c, d \in CallIds :
        /\ FailedCall(c) /\ FailedCall(d)
        /\ ops[OpOfCall(c)].error # ops[OpOfCall(d)].error
        /\ Len(calls[c].responses) = 1 /\ Len(calls[d].responses) = 1

(***************************************************************************)
(* Vocabulary of the storage properties.  ops[i].after is the operation    *)
(* whose successful store or clear was the last change of i's item before  *)
(* i completed: it tells what i found there.                               *)
(***************************************************************************)
Succeeded(i, kind) ==
    i \in DOMAIN ops /\ ops[i].kind = kind /\ ops[i].state = "done" /\ ops[i].error.isnull
FoundEntry(i) == ops[i].after # 0 /\ ops[ops[i].after].kind = "store"
WellFormedWrite(c) ==
    calls[c].method = "write" /\ HasStringArg(c, "name") /\ HasStringArg(c, "content")
WellFormedRead(c) == calls[c].method = "read" /\ HasStringArg(c, "name")

(***************************************************************************)
(* C6.  Round trip.  A write of (n, c) and a read of the same n address    *)
(* the same item, which only a write or delete of n changes; and when the  *)
(* write was answered success(true) and was the last change of the item    *)
(* before the read's lookup completed without error, with no other write   *)
(* or delete of n in between, the read is answered success(c).             *)
(***************************************************************************)
C6_RoundTrip ==
    \A w, r \in DOMAIN ops :
        LET cw == IssuerOf(w)
            cr == IssuerOf(r)
        IN  /\ (/\ WellFormedWrite(cw) /\ WellFormedRead(cr)
                /\ ArgOf(cr, "name") = ArgOf(cw, "name"))
               => /\ ops[w].name = ops[r].name
                  /\ (/\ Succeeded(w, "store") /\ Succeeded(r, "lookup")
                      /\ calls[cw].responses = <<Success(ValBool(TRUE))>>
                      /\ ops[r].after = w)
                     => calls[cr].responses = <<Success(ArgOf(cw, "content"))>>
            /\ (WellFormedRead(cr) /\ Succeeded(r, "lookup") /\ ops[r].after = w)
               => ArgOf(cw, "name") = ArgOf(cr, "name")

C6_Witness ==
    \E w, r \in DOMAIN ops :
        /\ Succeeded(w, "store") /\ Succeeded(r, "lookup") /\ ops[r].after = w
        /\ WellFormedWrite(IssuerOf(w)) /\ WellFormedRead(IssuerOf(r))
        /\ ArgOf(IssuerOf(w), "content") = ValString("s2")
        /\ IsSuccess(calls[IssuerOf(r)].responses[1], ValString("s2"))

(***************************************************************************)
(* C7.  A delete whose clear completed without error is answered           *)
(* success(true) when it found an entry of its item and success(false)     *)
(* when it found none, never with an error; so a delete that directly      *)
(* follows a delete of the same item is answered success(false).           *)
(***************************************************************************)
C7_DeleteReportsExistence ==
    \A d \in DOMAIN ops :
        Succeeded(d, "clear") =>
            calls[IssuerOf(d)].responses = <<Success(ValBool(FoundEntry(d)))>>

C7_Witness ==
    \E w, d1, d2 \in DOMAIN ops :
        /\ Succeeded(w, "store") /\ Succeeded(d1, "clear") /\ Succeeded(d2, "clear")
        /\ ops[d1].after = w /\ ops[d2].after = d1
        /\ IsSuccess(calls[IssuerOf(d1)].responses[1], ValBool(TRUE))
        /\ IsSuccess(calls[IssuerOf(d2)].responses[1], ValBool(FALSE))

(***************************************************************************)
(* C8.  A read whose lookup completed without error and found no entry     *)
(* (the item was never stored, or was cleared after it was last stored)    *)
(* is answered success(null), not an error; and success(null) answers      *)
(* only such a read.                                                       *)
(***************************************************************************)
C8_ReadOfAbsentIsNull ==
    /\ \A r \in DOMAIN ops :
           (Succeeded(r, "lookup") /\ ~FoundEntry(r)) =>
               calls[IssuerOf(r)].responses = <<Success(ValNull)>>
    /\ \A c \in CallIds :
           (calls[c].method = "read" /\ calls[c].responses # << >>
                /\ IsSuccess(calls[c].responses[1], ValNull)) =>
               /\ Completed(c)
               /\ Succeeded(OpOfCall(c), "lookup")
               /\ ~FoundEntry(OpOfCall(c))

C8_Witness ==
    \E w, d, r \in DOMAIN ops :
        /\ Succeeded(w, "store") /\ Succeeded(d, "clear") /\ Succeeded(r, "lookup")
        /\ ops[d].after = w /\ ops[r].after = d
        /\ ops[d].removed
        /\ IsSuccess(calls[IssuerOf(r)].responses[1], ValNull)

AuthRequiredOf(c) ==
    LET o == ArgOf(c, "options")
    IN  IF o.type = "map" /\ "authenticationRequired" \in DOMAIN o.map
        THEN o.map["authenticationRequired"] ELSE nullptr

(***************************************************************************)
(* C9.  An init whose options map has authenticationRequired true is       *)
(* answered with a Bad Arguments error, and one whose options map has it   *)
(* false or lacks it is answered success(true), whatever was called        *)
(* before and whatever is in flight.                                       *)
(***************************************************************************)
C9_InitAuthenticationRequired ==
    \A c \in CallIds :
        (calls[c].method = "init" /\ ArgOf(c, "options").type = "map") =>
            /\ Len(calls[c].responses) = 1
            /\ AuthRequiredOf(c) = ValBool(TRUE) =>
                   IsError(calls[c].responses[1], "Bad Arguments")
            /\ AuthRequiredOf(c) \in {ValBool(FALSE), nullptr} =>
                   IsSuccess(calls[c].responses[1], ValBool(TRUE))

C9_Witness ==
    \E b, c, d \in CallIds :
        /\ b < c /\ c < d
        /\ InFlight(b)
        /\ calls[c].method = "init" /\ AuthRequiredOf(c) = ValBool(TRUE)
        /\ IsError(calls[c].responses[1], "Bad Arguments")
        /\ calls[d].method = "init" /\ ArgOf(d, "options").type = "map"
        /\ AuthRequiredOf(d) = nullptr
        /\ IsSuccess(calls[d].responses[1], ValBool(TRUE))

(***************************************************************************)
(* C10.  An init whose options argument is absent or is not a map is       *)
(* answered with a Bad Arguments error, never with success, whatever the   *)
(* other arguments.                                                        *)
(***************************************************************************)
C10_InitNeedsOptionsMap ==
    \A c \in CallIds :
        (calls[c].method = "init" /\ ArgOf(c, "options").type # "map") =>
            /\ Len(calls[c].responses) = 1
            /\ IsError(calls[c].responses[1], "Bad Arguments")
            /\ calls[c].responses[1].kind # "success"

C10_Witness ==
    \E b, c, d \in CallIds :
        /\ calls[b].method = "init" /\ calls[b].args.type = "null"
        /\ calls[c].method = "init" /\ ArgOf(c, "options").type = "string"
        /\ calls[d].method = "init" /\ calls[d].args.type = "map"
        /\ ArgOf(d, "options") = nullptr /\ ArgOf(d, "name").type = "string"
        /\ \A x \in {b, c, d} : IsError(calls[x].responses[1], "Bad Arguments")

(***************************************************************************)
(* Vocabulary of the frame properties: the step that delivers a call.      *)
(***************************************************************************)
Delivers(method) ==
    Len(calls') = Len(calls) + 1 /\ calls'[Len(calls')].method = method
EarlierCallsUnchanged == \A c \in CallIds : calls'[c] = calls[c]
RetainedHandles == {c \in CallIds : calls[c].refs > 0}

(***************************************************************************)
(* C11.  canAuthenticate is answered in the step that delivers it, with    *)
(* success("ErrorHwUnavailable"), in every state; that step issues no      *)
(* backend call, retains no handle and leaves the secret service's items   *)
(* and every other call as they were.                                      *)
(***************************************************************************)
C11_CanAuthenticate ==
    [][Delivers("canAuthenticate") =>
          /\ calls'[Len(calls')].responses = <<Success(ValString("ErrorHwUnavailable"))>>
          /\ calls'[Len(calls')].refs = 0
          /\ ops' = ops
          /\ issued' = issued
          /\ store' = store
          /\ EarlierCallsUnchanged]_vars

C11_Witness ==
    \E a, b, c \in CallIds :
        /\ a < b /\ b < c
        /\ InFlight(a)
        /\ calls[b].method = "init" /\ IsError(calls[b].responses[1], "Bad Arguments")
        /\ calls[c].method = "canAuthenticate"
        /\ calls[c].responses = <<Success(ValString("ErrorHwUnavailable"))>>

KnownMethods == {"canAuthenticate", "init", "write", "read", "delete"}
DeliversUnknown ==
    Len(calls') = Len(calls) + 1 /\ calls'[Len(calls')].method \notin KnownMethods

(***************************************************************************)
(* C12.  A call whose method is none of canAuthenticate, init, write,      *)
(* read, delete is answered in the step that delivers it with the          *)
(* not-implemented response; that step issues no backend call and retains  *)
(* no handle.                                                              *)
(***************************************************************************)
C12_NotImplemented ==
    [][DeliversUnknown =>
          /\ Len(calls'[Len(calls')].responses) = 1
          /\ calls'[Len(calls')].responses[1].kind = "not_implemented"
          /\ calls'[Len(calls')].refs = 0
          /\ ops' = ops
          /\ issued' = issued
          /\ store' = store
          /\ EarlierCallsUnchanged]_vars

C12_Witness ==
    \E a, c \in CallIds :
        /\ a < c
        /\ InFlight(a)
        /\ calls[c].method \notin KnownMethods
        /\ Len(calls[c].responses) = 1
        /\ calls[c].responses[1].kind = "not_implemented"
        /\ calls[c].refs = 0

ShortName(c) == ArgOf(c, "name").str
Resolve(n) == "design.codeux.authpass" \o "." \o n

(***************************************************************************)
(* C13.  For every short name n present in the arguments, the identifier   *)
(* passed to the backend by write, read and delete is exactly              *)
(* "design.codeux.authpass" + "." + n; the same n always yields the same   *)
(* identifier and two different short names never yield the same one.      *)
(***************************************************************************)
C13_NameResolution ==
    /\ \A i \in DOMAIN ops :
           HasStringArg(IssuerOf(i), "name")
               => ops[i].name = Resolve(ShortName(IssuerOf(i)))
    /\ \A i, j \in DOMAIN ops :
           (HasStringArg(IssuerOf(i), "name") /\ HasStringArg(IssuerOf(j), "name"))
               => ((ops[i].name = ops[j].name)
                      <=> (ShortName(IssuerOf(i)) = ShortName(IssuerOf(j))))

C13_Witness ==
    \E i, j, k \in DOMAIN ops :
        /\ ops[i].kind = "store" /\ ops[j].kind = "lookup" /\ ops[k].kind = "clear"
        /\ \A x \in {i, j, k} : HasStringArg(IssuerOf(x), "name")
        /\ ShortName(IssuerOf(i)) = "k2" /\ ops[i].name = "design.codeux.authpass.k2"
        /\ ShortName(IssuerOf(j)) = "k1" /\ ops[j].name = "design.codeux.authpass.k1"
        /\ ops[k].name = ops[j].name

(***************************************************************************)
(* C14.  Call-handle lifetime: in every reachable state the retained       *)
(* handles are exactly the calls whose backend operation is pending, each  *)
(* holding the one reference taken when the operation was issued; a        *)
(* released handle has its response and a retained one has none; when no   *)
(* operation is pending, no handle is retained.                            *)
(***************************************************************************)
C14_HandleLifetime ==
    /\ RetainedHandles = {c \in CallIds : InFlight(c)}
    /\ \A c \in CallIds :
           /\ calls[c].refs \in {0, 1}
           /\ calls[c].refs = 1 => calls[c].responses = << >>
           /\ Completed(c) => calls[c].refs = 0 /\ Len(calls[c].responses) = 1
    /\ (\A i \in DOMAIN ops : ops[i].state = "done") => RetainedHandles = {}

DeliversStorageCall ==
    Len(calls') = Len(calls) + 1
        /\ calls'[Len(calls')].method \in {"write", "read", "delete"}
GetsResponse(c) == calls[c].responses = << >> /\ calls'[c].responses # << >>

(***************************************************************************)
(* C15.  The step that delivers a write, read or delete returns without a  *)
(* response: at its end the call has zero responses and its backend        *)
(* operation is pending.  A storage call gets its response only in the     *)
(* step in which its backend operation completes, so no response precedes  *)
(* the completion.                                                         *)
(***************************************************************************)
C15_ResponseOnlyAtCompletion ==
    [][/\ DeliversStorageCall =>
              /\ calls'[Len(calls')].responses = << >>
              /\ Len(ops') = Len(ops) + 1
              /\ ops'[Len(ops')].state = "pending"
       /\ \A c \in CallIds :
              (IsStorageCall(c) /\ GetsResponse(c)) =>
                  (InFlight(c) /\ ops'[OpOfCall(c)].state = "done")]_vars

PrimitiveOf(method) ==
    IF method = "write" THEN "secret_password_store"
    ELSE IF method = "read" THEN "secret_password_lookup"
    ELSE "secret_password_clear"
BackendCallsOf(c) == {k \in DOMAIN issued : issued[k].user_data = c}
StorageCalls == {c \in CallIds : IsStorageCall(c)}

(***************************************************************************)
(* C16.  No retry: every write, read or delete delivered has made exactly  *)
(* one backend call, of its own primitive (store, lookup, clear); no other *)
(* call has made any; this stays so after the operation has failed; the    *)
(* number of backend calls made always equals the number of write, read    *)
(* and delete calls delivered.                                             *)
(***************************************************************************)
C16_NoRetry ==
    /\ \A c \in CallIds :
           IF IsStorageCall(c)
           THEN /\ Cardinality(BackendCallsOf(c)) = 1
                /\ \A k \in BackendCallsOf(c) :
                       issued[k].primitive = PrimitiveOf(calls[c].method)
           ELSE BackendCallsOf(c) = {}
    /\ Len(issued) = Cardinality(StorageCalls)
    /\ Len(ops) <= Len(issued)

C16_Witness ==
    \E a, b, c \in CallIds :
        /\ calls[a].method = "write" /\ calls[b].method = "read"
        /\ calls[c].method = "delete"
        /\ \A x \in {a, b, c} :
               /\ Completed(x) /\ IsError(calls[x].responses[1], "Security Access Error")
               /\ Cardinality(BackendCallsOf(x)) = 1
        /\ Len(issued) = 3

SameNameWrites(a, b) ==
    /\ a # b
    /\ WellFormedWrite(a) /\ WellFormedWrite(b)
    /\ ShortName(a) = ShortName(b)
OwnResponse(c) ==
    /\ Len(calls[c].responses) = 1
    /\ IF ops[OpOfCall(c)].error.isnull
       THEN IsSuccess(calls[c].responses[1], ValBool(TRUE))
       ELSE /\ IsError(calls[c].responses[1], "Security Access Error")
            /\ calls[c].responses[1].value = ErrorDetails(ops[OpOfCall(c)].error)
(* b's operation completed successfully after a's had *)
FiredLast(a, b) ==
    /\ Succeeded(OpOfCall(a), "store") /\ Succeeded(OpOfCall(b), "store")
    /\ ops[OpOfCall(b)].after = OpOfCall(a)

(***************************************************************************)
(* C17.  No per-name serialization: every write, read or delete the        *)
(* service accepts is an operation of the service from the step that       *)
(* delivers it, also while another operation on the same name is pending.  *)
(* Of two overlapping writes of the same name, each gets its own response  *)
(* once its operation has completed; and a read of that name that          *)
(* completes after both have succeeded, with no other operation on the     *)
(* name, returns the content of the write whose completion fired last.     *)
(***************************************************************************)
C17_NoSerialization ==
    /\ Len(ops) = Len(Issuers)
    /\ \A a, b \in CallIds :
           (SameNameWrites(a, b) /\ Completed(a)) => OwnResponse(a)
    /\ \A a, b, r \in CallIds :
           (/\ SameNameWrites(a, b) /\ FiredLast(a, b)
            /\ WellFormedRead(r) /\ ShortName(r) = ShortName(a)
            /\ Completed(r) /\ ops[OpOfCall(r)].error.isnull
            /\ ops[OpOfCall(r)].after = OpOfCall(b))
               => IsSuccess(calls[r].responses[1],
                            ValString(ArgOf(b, "content").str))

C17_Witness ==
    /\ Len(calls) = 3
    /\ SameNameWrites(1, 2) /\ FiredLast(2, 1)
    /\ ArgOf(1, "content").str = "s1" /\ ArgOf(2, "content").str = "s2"
    /\ WellFormedRead(3) /\ ShortName(3) = ShortName(1) /\ Completed(3)
    /\ IsSuccess(calls[1].responses[1], ValBool(TRUE))
    /\ IsSuccess(calls[2].responses[1], ValBool(TRUE))
    /\ IsSuccess(calls[3].responses[1], ValString("s1"))

ExpectedResponse(method, op) ==
    IF ~op.error.isnull
        THEN [kind |-> "error", code |-> "Security Access Error",
              value |-> ErrorDetails(op.error)]
    ELSE IF method = "write" THEN [kind |-> "success", code |-> "", value |-> ValBool(TRUE)]
    ELSE IF method = "delete"
        THEN [kind |-> "success", code |-> "", value |-> ValBool(op.removed)]
    ELSE [kind |-> "success", code |-> "",
          value |-> IF op.found = << >> THEN ValNull ELSE ValString(op.found[1])]
Outline(r) == [kind |-> r.kind, code |-> r.code, value |-> r.value]

(***************************************************************************)
(* C18.  init does not gate the storage operations.  The step that         *)
(* delivers an init, answered with success or with an error, makes no      *)
(* backend call and changes nothing beyond recording the answered call.    *)
(* The step that delivers a write, read or delete makes its backend call   *)
(* and leaves the call unanswered whatever init calls came before, and the *)
(* response the call gets at completion is that of its own operation's     *)
(* result.                                                                 *)
(***************************************************************************)
C18_InitDoesNotGate ==
    [][/\ Delivers("init") =>
              /\ Len(calls'[Len(calls')].responses) = 1
              /\ calls'[Len(calls')].refs = 0
              /\ ops' = ops /\ issued' = issued /\ store' = store
              /\ EarlierCallsUnchanged
       /\ DeliversStorageCall =>
              /\ calls'[Len(calls')].responses = << >>
              /\ issued' = Append(issued,
                     [primitive |-> PrimitiveOf(calls'[Len(calls')].method),
                      user_data |-> Len(calls')])
              /\ store' = store
       /\ \A c \in CallIds :
              (IsStorageCall(c) /\ GetsResponse(c)) =>
                  /\ Len(calls'[c].responses) = 1
                  /\ Outline(calls'[c].responses[1])
                         = ExpectedResponse(calls[c].method, ops'[OpOfCall(c)])]_vars

C18_Witness ==
    /\ Len(calls) = 3
    /\ WellFormedWrite(1) /\ Completed(1)
    /\ IsSuccess(calls[1].responses[1], ValBool(TRUE))
    /\ calls[2].method = "init" /\ IsError(calls[2].responses[1], "Bad Arguments")
    /\ WellFormedRead(3) /\ ShortName(3) = ShortName(1) /\ Completed(3)
    /\ IsSuccess(calls[3].responses[1], ValString(ArgOf(1, "content").str))

Entry(st, key) == IF key \in DOMAIN st THEN <<st[key]>> ELSE << >>
Completes(i) == ops[i].state = "pending" /\ ops'[i].state = "done"

(***************************************************************************)
(* C19.  Per-name isolation.  A step changes the backend entry of a key    *)
(* only if in it a store or clear operation for that very key completes,   *)
(* the key being the resolved name of the write or delete that issued it;  *)
(* a step in which a lookup completes changes no entry.  A read of m is    *)
(* answered from the entry of resolve(m) alone, so operations on other     *)
(* names do not affect its result.                                         *)
(***************************************************************************)
C19_PerNameIsolation ==
    [][/\ \A key \in (DOMAIN store) \cup (DOMAIN store') :
              Entry(store', key) # Entry(store, key) =>
                  \E i \in DOMAIN ops :
                      /\ Completes(i)
                      /\ ops[i].kind \in {"store", "clear"}
                      /\ calls[IssuerOf(i)].method \in {"write", "delete"}
                      /\ HasStringArg(IssuerOf(i), "name")
                      /\ key = Resolve(ShortName(IssuerOf(i)))
       /\ \A i \in DOMAIN ops :
              (Completes(i) /\ ops[i].kind = "lookup") => store' = store
       /\ \A r \in CallIds :
              (WellFormedRead(r) /\ GetsResponse(r)
                   /\ calls'[r].responses[1].kind = "success") =>
                  calls'[r].responses[1].value =
                      (IF Entry(store, Resolve(ShortName(r))) = << >> THEN ValNull
                       ELSE ValString(store[Resolve(ShortName(r))]))]_vars

C19_Witness ==
    /\ Len(calls) = 3
    /\ WellFormedWrite(1) /\ ShortName(1) = "k1" /\ Succeeded(OpOfCall(1), "store")
    /\ WellFormedWrite(2) /\ ShortName(2) = "k2" /\ Succeeded(OpOfCall(2), "store")
    /\ ArgOf(1, "content").str # ArgOf(2, "content").str
    /\ WellFormedRead(3) /\ ShortName(3) = "k1" /\ Completed(3)
    /\ IsSuccess(calls[3].responses[1], ValString(ArgOf(1, "content").str))
    /\ Entry(store, "design.codeux.authpass.k2") = <<ArgOf(2, "content").str>>

====
